---- MODULE Spec2Model ----
(***************************************************************************)
(* A model of src/src/graph.rs: a directed multigraph stored in two        *)
(* append-only arenas (nodes, edges).  Every edge is threaded onto two     *)
(* intrusive singly linked lists, the OUTGOING list of its source and the  *)
(* INCOMING list of its target.                                            *)
(*                                                                         *)
(* Arena indices are zero-based as in the source; TLA+ sequences are       *)
(* one-based, so the record with index i lives at position i + 1.          *)
(***************************************************************************)
EXTENDS Integers, Sequences, FiniteSets, TLC

VARIABLES
    nodes,   \* Graph.nodes : the node arena, a sequence of Node records
    edges,   \* Graph.edges : the edge arena, a sequence of Edge records
    ret,     \* outcome of the most recent call on the graph
    hist,    \* history of the add_node / add_edge calls made so far
    snaps,   \* stack of open savepoints on the two arenas
    dfs,     \* the DepthFirstTraversal iterator, if one is alive
    fp,      \* the activation of iterate_until_fixed_point, if one is running
    each,    \* the most recent each_node / each_edge call and what it did
    walk     \* a caller's walk over one list with first_adjacent / next_adjacent

vars == <<nodes, edges, ret, hist, snaps, dfs, fp, each, walk>>

----------------------------------------------------------------------------
(* Bounds of the model. *)

\* the call-history specification (Spec): payloads are chosen freely and
\* add_edge is also called with indices that are out of range
MaxNodes == 2
MaxEdges == 2

\* the specifications that run iterators and savepoints on a built graph
GrowNodes == 3
GrowEdges == 2

\* height of the caller's lattice in iterate_until_fixed_point
MaxAdvances == 2

\* the savepoint specification: arena sizes, and the number of savepoints
\* taken in one run, nested or one after the other
TxNodes == 2
TxEdges == 1
MaxSnapshots == 1
MutNodes == 2
MutEdges == 1

----------------------------------------------------------------------------
(* Index and direction types. *)

\* usize::MAX, scaled to the integer range of the model checker; the model
\* only relies on it being larger than every arena length
INVALID_EDGE_INDEX == 2147483647

\* Direction { repr }, modelled by its repr
OUTGOING == 0
INCOMING == 1
Directions == {OUTGOING, INCOMING}

\* payloads a caller may supply
NodeData == {"n1", "n2"}
EdgeData == {"e1", "e2"}

----------------------------------------------------------------------------
(* Arena access. *)

\* bounds check of arena[i]: indexing out of range aborts
InRange(arena, i) == i >= 0 /\ i < Len(arena)

node(ns, idx) == ns[idx + 1]

edge(es, idx) == es[idx + 1]

node_data_reversed(ns, idx) == ns[Len(ns) - idx].data

node_data(ns, idx) == ns[idx + 1].data

edge_data(es, idx) == es[idx + 1].data

\* mutant: the write replaces the node by a fresh one that carries the payload
mut_node_data_fresh_node(ns, idx, data) ==
    [ns EXCEPT ![idx + 1] = [first_edge |-> <<INVALID_EDGE_INDEX, INVALID_EDGE_INDEX>>,
                             data |-> data]]

\* *graph.mut_node_data(idx) = data: the node arena after the write
mut_node_data(ns, idx, data) == [ns EXCEPT ![idx + 1].data = data]

\* *graph.mut_edge_data(idx) = data: the edge arena after the write
mut_edge_data(es, idx, data) == [es EXCEPT ![idx + 1].data = data]

all_nodes == nodes

all_edges == edges

\* the loop of Iterator::all over arena.iter().enumerate(), from position k
\* on: f is invoked on the next element; a false answer ends the loop
RECURSIVE AllFrom(_, _, _, _)
AllFrom(arena, answers, k, visits) ==
    IF k > Len(arena)
    THEN [visits |-> visits, result |-> TRUE]
    ELSE
        LET made == Append(visits, [idx |-> k - 1, item |-> arena[k]])
        IN  IF answers[Len(made)]
            THEN AllFrom(arena, answers, k + 1, made)
            ELSE [visits |-> made, result |-> FALSE]

\* mutant: every element is visited and the answers are folded with `and`
EnumerateAllNoEarlyExit(arena, answers) ==
    [visits |-> [k \in 1 .. Len(arena) |-> [idx |-> k - 1, item |-> arena[k]]],
     result |-> \A k \in 1 .. Len(arena) : answers[k]]

\* arena.iter().enumerate().all(f), where answers[k] is what f answers at
\* its k-th invocation: the invocations made, and the value returned
EnumerateAll(arena, answers) == AllFrom(arena, answers, 1, <<>>)

each_node(ns, answers) == EnumerateAll(ns, answers)

each_edge(es, answers) == EnumerateAll(es, answers)

next_node_index_off_by_one(ns) == Len(ns) + 1

next_node_index(ns) == Len(ns)

next_edge_index_off_by_one(es) == Len(es) + 1

next_edge_index(es) == Len(es)

----------------------------------------------------------------------------
(* Construction. *)

\* add_node: the arena after the push and the index returned
add_node(ns, data) ==
    LET idx == next_node_index(ns)
    IN  [nodes |-> Append(ns, [first_edge |-> <<INVALID_EDGE_INDEX, INVALID_EDGE_INDEX>>,
                               data |-> data]),
         idx |-> idx]

\* an aborted call: nothing was written before the failing index expression
Aborted(ns, es) ==
    [nodes |-> ns, edges |-> es, panicked |-> TRUE, idx |-> INVALID_EDGE_INDEX]

\* mutant: the two next pointers of the new edge are stored the wrong way round
add_edge_swapped_next(ns, es, source, target, data) ==
    LET idx == next_edge_index(es)
    IN  IF ~InRange(ns, source) THEN Aborted(ns, es)
        ELSE IF ~InRange(ns, target) THEN Aborted(ns, es)
        ELSE
            LET source_first == node(ns, source).first_edge[OUTGOING + 1]
                target_first == node(ns, target).first_edge[INCOMING + 1]
                es2 == Append(es, [next_edge |-> <<target_first, source_first>>,
                                   source |-> source,
                                   target |-> target,
                                   data |-> data])
                ns1 == [ns EXCEPT ![source + 1].first_edge[OUTGOING + 1] = idx]
                ns2 == [ns1 EXCEPT ![target + 1].first_edge[INCOMING + 1] = idx]
            IN  [nodes |-> ns2, edges |-> es2, panicked |-> FALSE, idx |-> idx]

\* mutant: the target is looked up leniently; a missing target is skipped
add_edge_unchecked_target(ns, es, source, target, data) ==
    LET idx == next_edge_index(es)
    IN  IF ~InRange(ns, source) THEN Aborted(ns, es)
        ELSE
            LET source_first == node(ns, source).first_edge[OUTGOING + 1]
                target_first == IF InRange(ns, target)
                                THEN node(ns, target).first_edge[INCOMING + 1]
                                ELSE INVALID_EDGE_INDEX
                es2 == Append(es, [next_edge |-> <<source_first, target_first>>,
                                   source |-> source,
                                   target |-> target,
                                   data |-> data])
                ns1 == [ns EXCEPT ![source + 1].first_edge[OUTGOING + 1] = idx]
                ns2 == IF InRange(ns, target)
                       THEN [ns1 EXCEPT ![target + 1].first_edge[INCOMING + 1] = idx]
                       ELSE ns1
            IN  [nodes |-> ns2, edges |-> es2, panicked |-> FALSE, idx |-> idx]

\* mutant: the two head writes use each other's direction
add_edge_heads_swapped(ns, es, source, target, data) ==
    LET idx == next_edge_index(es)
    IN  IF ~InRange(ns, source) THEN Aborted(ns, es)
        ELSE IF ~InRange(ns, target) THEN Aborted(ns, es)
        ELSE
            LET source_first == node(ns, source).first_edge[OUTGOING + 1]
                target_first == node(ns, target).first_edge[INCOMING + 1]
                es2 == Append(es, [next_edge |-> <<source_first, target_first>>,
                                   source |-> source,
                                   target |-> target,
                                   data |-> data])
                ns1 == [ns EXCEPT ![source + 1].first_edge[INCOMING + 1] = idx]
                ns2 == [ns1 EXCEPT ![target + 1].first_edge[OUTGOING + 1] = idx]
            IN  [nodes |-> ns2, edges |-> es2, panicked |-> FALSE, idx |-> idx]

\* mutant: the heads are read after they were set to the new edge
add_edge_reads_heads_late(ns, es, source, target, data) ==
    LET idx == next_edge_index(es)
    IN  IF ~InRange(ns, source) THEN Aborted(ns, es)
        ELSE IF ~InRange(ns, target) THEN Aborted(ns, es)
        ELSE
            LET ns1 == [ns EXCEPT ![source + 1].first_edge[OUTGOING + 1] = idx]
                ns2 == [ns1 EXCEPT ![target + 1].first_edge[INCOMING + 1] = idx]
                source_first == node(ns2, source).first_edge[OUTGOING + 1]
                target_first == node(ns2, target).first_edge[INCOMING + 1]
                es2 == Append(es, [next_edge |-> <<source_first, target_first>>,
                                   source |-> source,
                                   target |-> target,
                                   data |-> data])
            IN  [nodes |-> ns2, edges |-> es2, panicked |-> FALSE, idx |-> idx]

\* mutant: the edge that was the source's head is linked back to the new edge
add_edge_relinks_old_head(ns, es, source, target, data) ==
    LET idx == next_edge_index(es)
    IN  IF ~InRange(ns, source) THEN Aborted(ns, es)
        ELSE IF ~InRange(ns, target) THEN Aborted(ns, es)
        ELSE
            LET source_first == node(ns, source).first_edge[OUTGOING + 1]
                target_first == node(ns, target).first_edge[INCOMING + 1]
                es1 == IF source_first = INVALID_EDGE_INDEX
                       THEN es
                       ELSE [es EXCEPT ![source_first + 1].next_edge[INCOMING + 1] = idx]
                es2 == Append(es1, [next_edge |-> <<source_first, target_first>>,
                                    source |-> source,
                                    target |-> target,
                                    data |-> data])
                ns1 == [ns EXCEPT ![source + 1].first_edge[OUTGOING + 1] = idx]
                ns2 == [ns1 EXCEPT ![target + 1].first_edge[INCOMING + 1] = idx]
            IN  [nodes |-> ns2, edges |-> es2, panicked |-> FALSE, idx |-> idx]

\* mutant: the source's head is written before the target is looked up
add_edge_writes_before_target_check(ns, es, source, target, data) ==
    LET idx == next_edge_index(es)
    IN  IF ~InRange(ns, source) THEN Aborted(ns, es)
        ELSE
            LET ns1 == [ns EXCEPT ![source + 1].first_edge[OUTGOING + 1] = idx]
            IN  IF ~InRange(ns, target) THEN Aborted(ns1, es)
                ELSE
                    LET source_first == node(ns, source).first_edge[OUTGOING + 1]
                        target_first == node(ns, target).first_edge[INCOMING + 1]
                        es2 == Append(es, [next_edge |-> <<source_first, target_first>>,
                                           source |-> source,
                                           target |-> target,
                                           data |-> data])
                        ns2 == [ns1 EXCEPT ![target + 1].first_edge[INCOMING + 1] = idx]
                    IN  [nodes |-> ns2, edges |-> es2, panicked |-> FALSE, idx |-> idx]

\* add_edge: the arenas after the call, the index returned, and whether the
\* call aborted at one of its index expressions
add_edge(ns, es, source, target, data) ==
    LET idx == next_edge_index(es)
    IN  IF ~InRange(ns, source) THEN Aborted(ns, es)           \* nodes[source.0]
        ELSE IF ~InRange(ns, target) THEN Aborted(ns, es)      \* nodes[target.0]
        ELSE
            LET source_first == node(ns, source).first_edge[OUTGOING + 1]
                target_first == node(ns, target).first_edge[INCOMING + 1]
                es2 == Append(es, [next_edge |-> <<source_first, target_first>>,
                                   source |-> source,
                                   target |-> target,
                                   data |-> data])
                ns1 == [ns EXCEPT ![source + 1].first_edge[OUTGOING + 1] = idx]
                ns2 == [ns1 EXCEPT ![target + 1].first_edge[INCOMING + 1] = idx]
            IN  [nodes |-> ns2, edges |-> es2, panicked |-> FALSE, idx |-> idx]

----------------------------------------------------------------------------
(* Adjacency. *)

first_adjacent(ns, n, dir) == node(ns, n).first_edge[dir + 1]

\* mutant: the link of the opposite direction is read
next_adjacent_other_direction(es, e, dir) == edge(es, e).next_edge[(1 - dir) + 1]

next_adjacent(es, e, dir) == edge(es, e).next_edge[dir + 1]

\* the edge indices an AdjacentEdges iterator yields from position `next`
\* on; `fuel` cuts a walk that would not end after Len(es) + 1 steps
RECURSIVE AdjacentEdgesFrom(_, _, _, _)
AdjacentEdgesFrom(es, next, dir, fuel) ==
    IF next = INVALID_EDGE_INDEX \/ fuel = 0
    THEN <<>>
    ELSE <<next>> \o AdjacentEdgesFrom(es, edge(es, next).next_edge[dir + 1], dir, fuel - 1)

\* draining adjacent_edges(source, direction)
adjacent_edges(ns, es, source, direction) ==
    AdjacentEdgesFrom(es, node(ns, source).first_edge[direction + 1], direction, Len(es) + 1)

outgoing_edges(ns, es, source) == adjacent_edges(ns, es, source, OUTGOING)

incoming_edges(ns, es, source) == adjacent_edges(ns, es, source, INCOMING)

\* outgoing_edges(source).map(|(_, edge)| edge.target).collect()
successor_nodes(ns, es, source) ==
    LET out == outgoing_edges(ns, es, source)
    IN  [k \in 1 .. Len(out) |-> edge(es, out[k]).target]

\* mutant: the closure of successor_nodes, copied unchanged
predecessor_nodes_maps_target(ns, es, target) ==
    LET inc == incoming_edges(ns, es, target)
    IN  [k \in 1 .. Len(inc) |-> edge(es, inc[k]).target]

\* incoming_edges(target).map(|(_, edge)| edge.source).collect()
predecessor_nodes(ns, es, target) ==
    LET inc == incoming_edges(ns, es, target)
    IN  [k \in 1 .. Len(inc) |-> edge(es, inc[k]).source]

----------------------------------------------------------------------------
(* State. *)

NoSnapshot == [nodes_len |-> 0, edges_len |-> 0, nodes_then |-> <<>>, edges_then |-> <<>>]

NoCall == [op |-> "new", panicked |-> FALSE, idx |-> 0, next_before |-> 0,
           source |-> 0, target |-> 0, snap |-> NoSnapshot, old |-> ""]

NoHistory == [node_rets |-> <<>>, node_args |-> <<>>,
              edge_rets |-> <<>>, edge_args |-> <<>>, snapshots |-> 0]

DfsIdle == [pc |-> "idle", start |-> 0, stack |-> <<>>, visited |-> {},
            yielded |-> <<>>, last |-> "None"]

\* the driver's locals, and what an observer of op's invocations counts:
\* the passes started and the passes in which some invocation answered true
FpIdle == [pc |-> "idle", iteration |-> 0, changed |-> FALSE, i |-> 0,
           trace |-> <<>>, advances |-> 0, passes |-> 0, true_passes |-> 0]

EachIdle == [op |-> "none", answers |-> <<>>, visits |-> <<>>, result |-> TRUE]

\* a caller's walk over one list by first_adjacent / next_adjacent: the edge
\* it stands on, the edges it visited, what the adjacency iterator would have
\* yielded when the head was read, and whether the list had grown by the
\* time of some visit
WalkIdle == [pc |-> "idle", node |-> 0, dir |-> OUTGOING, cursor |-> INVALID_EDGE_INDEX,
             visited |-> <<>>, expected |-> <<>>, grown |-> FALSE]

\* Graph::new()
Init ==
    /\ nodes = <<>>
    /\ edges = <<>>
    /\ ret = NoCall
    /\ hist = NoHistory
    /\ snaps = <<>>
    /\ dfs = DfsIdle
    /\ fp = FpIdle
    /\ each = EachIdle
    /\ walk = WalkIdle

\* a mutable borrow of the graph excludes every live iterator and driver
NoBorrow == dfs.pc # "active" /\ fp.pc \in {"idle", "done"}

----------------------------------------------------------------------------
(* Calls on the graph. *)

\* graph.add_node(data)
AddNode(data) ==
    LET r == add_node(nodes, data)
    IN  /\ NoBorrow
        /\ nodes' = r.nodes
        /\ ret' = [op |-> "add_node", panicked |-> FALSE, idx |-> r.idx,
                   next_before |-> next_node_index(nodes),
                   source |-> 0, target |-> 0, snap |-> NoSnapshot, old |-> ""]
        /\ dfs' = DfsIdle
        /\ fp' = FpIdle
        /\ each' = EachIdle
        /\ UNCHANGED <<edges, walk>>

\* graph.add_edge(source, target, data)
AddEdge(source, target, data) ==
    LET r == add_edge(nodes, edges, source, target, data)
    IN  /\ NoBorrow
        /\ nodes' = r.nodes
        /\ edges' = r.edges
        /\ ret' = [op |-> "add_edge", panicked |-> r.panicked, idx |-> r.idx,
                   next_before |-> next_edge_index(edges),
                   source |-> source, target |-> target, snap |-> NoSnapshot, old |-> ""]
        /\ dfs' = DfsIdle
        /\ fp' = FpIdle
        /\ each' = EachIdle
        /\ UNCHANGED walk

----------------------------------------------------------------------------
(* Spec: every sequence of add_node / add_edge calls, with any payload and  *)
(* any index arguments, in range or not.                                   *)

NodeIndices == 0 .. MaxNodes

CallAddNode ==
    /\ Len(nodes) < MaxNodes
    /\ \E data \in NodeData :
        /\ AddNode(data)
        /\ hist' = [hist EXCEPT !.node_rets = Append(@, ret'.idx),
                                !.node_args = Append(@, data)]
    /\ UNCHANGED snaps

\* a call that would grow the edge arena beyond MaxEdges is not made; a call
\* that aborts is made on every graph
CallAddEdge ==
    /\ \E source \in NodeIndices, target \in NodeIndices, data \in EdgeData :
        /\ Len(edges) < MaxEdges \/ ~InRange(nodes, source) \/ ~InRange(nodes, target)
        /\ AddEdge(source, target, data)
        /\ hist' = IF ret'.panicked
                   THEN hist
                   ELSE [hist EXCEPT !.edge_rets = Append(@, ret'.idx),
                                     !.edge_args = Append(@, [source |-> source,
                                                             target |-> target,
                                                             data |-> data])]
    /\ UNCHANGED snaps

Next == CallAddNode \/ CallAddEdge

Spec == Init /\ [][Next]_vars

----------------------------------------------------------------------------
(* Properties of the construction calls. *)

Endpoint(e, dir) == IF dir = OUTGOING THEN e.source ELSE e.target

\* the indices k - 1, k - 2, ..., 0 as a sequence
RECURSIVE Descending(_)
Descending(k) == IF k = 0 THEN <<>> ELSE <<k - 1>> \o Descending(k - 1)

\* the edges on the dir-side of n, newest first
ExpectedAdjacent(n, dir) ==
    LET touches(j) == Endpoint(edge(edges, j), dir) = n
    IN  SelectSeq(Descending(Len(edges)), touches)

\* C1: for every node n and direction d, adjacent_edges(n, d) yields exactly
\* the edges whose d-side endpoint is n, each once, newest edge first.
C1_AdjacencyCorrect ==
    \A n \in 0 .. Len(nodes) - 1 : \A dir \in Directions :
        adjacent_edges(nodes, edges, n, dir) = ExpectedAdjacent(n, dir)

\* a node with a self-loop and a second edge on both of its lists
C1_Witness ==
    \E n \in 0 .. Len(nodes) - 1 :
        /\ Len(adjacent_edges(nodes, edges, n, OUTGOING)) >= 2
        /\ Len(adjacent_edges(nodes, edges, n, INCOMING)) >= 2
        /\ \E j \in 0 .. Len(edges) - 1 :
            edge(edges, j).source = n /\ edge(edges, j).target = n

\* C8: the k-th add_node returns NodeIndex k and the k-th successful add_edge
\* returns EdgeIndex k; each result equals next_*_index read just before.
C8_DenseIndices ==
    /\ \A k \in 1 .. Len(hist.node_rets) : hist.node_rets[k] = k - 1
    /\ \A k \in 1 .. Len(hist.edge_rets) : hist.edge_rets[k] = k - 1
    /\ (ret.op \in {"add_node", "add_edge"} /\ ~ret.panicked) => ret.idx = ret.next_before
    /\ Len(hist.node_rets) = Len(nodes)
    /\ Len(hist.edge_rets) = Len(edges)

\* both arenas have handed out two indices, and a call has failed in between
C8_Witness ==
    /\ Len(hist.node_rets) >= 2
    /\ Len(hist.edge_rets) >= 2
    /\ ret.op = "add_edge" /\ ~ret.panicked /\ ret.idx = 1

\* C9: node_data / edge_data of every returned index is the payload that was
\* supplied, right after the call and after any later calls; all_nodes /
\* all_edges and each_node / each_edge present the payloads in creation
\* order, at the position that is their index.
C9_PayloadRoundTrip ==
    /\ \A k \in 1 .. Len(hist.node_rets) :
        /\ InRange(nodes, hist.node_rets[k])
        /\ node_data(nodes, hist.node_rets[k]) = hist.node_args[k]
    /\ \A k \in 1 .. Len(hist.edge_rets) :
        /\ InRange(edges, hist.edge_rets[k])
        /\ edge_data(edges, hist.edge_rets[k]) = hist.edge_args[k].data
    /\ [k \in 1 .. Len(all_nodes) |-> all_nodes[k].data] = hist.node_args
    /\ [k \in 1 .. Len(all_edges) |-> all_edges[k].data] =
           [k \in 1 .. Len(hist.edge_args) |-> hist.edge_args[k].data]
    /\ LET seen == each_node(nodes, [k \in 1 .. Len(nodes) |-> TRUE]).visits
       IN  /\ Len(seen) = Len(hist.node_args)
           /\ \A k \in 1 .. Len(seen) :
                /\ seen[k].idx = hist.node_rets[k]
                /\ seen[k].item.data = hist.node_args[k]
                /\ node_data(nodes, seen[k].idx) = hist.node_args[k]
    /\ LET seen == each_edge(edges, [k \in 1 .. Len(edges) |-> TRUE]).visits
       IN  /\ Len(seen) = Len(hist.edge_args)
           /\ \A k \in 1 .. Len(seen) :
                /\ seen[k].idx = hist.edge_rets[k]
                /\ seen[k].item.data = hist.edge_args[k].data
                /\ edge_data(edges, seen[k].idx) = hist.edge_args[k].data

\* two nodes and two edges with different payloads, read back after later calls
C9_Witness ==
    /\ Len(hist.node_args) >= 2 /\ hist.node_args[1] # hist.node_args[2]
    /\ Len(hist.edge_args) >= 2 /\ hist.edge_args[1].data # hist.edge_args[2].data

\* C10: add_edge aborts iff source or target is not the index of a node in
\* the arena; add_node never aborts.
C10_AddEdgeFailsIffOutOfRange ==
    /\ ret.op = "add_edge" =>
        (ret.panicked <=> ~(InRange(nodes, ret.source) /\ InRange(nodes, ret.target)))
    /\ ret.op = "add_node" => ~ret.panicked

\* a call with a valid source and a stale target, on a graph that already
\* accepted a self-loop twice
C10_Witness ==
    /\ ret.op = "add_edge" /\ ret.panicked
    /\ InRange(nodes, ret.source) /\ ~InRange(nodes, ret.target)
    /\ Len(edges) >= 2
    /\ edge(edges, 0).source = edge(edges, 0).target
    /\ edge(edges, 1).source = edge(edges, 0).source
    /\ edge(edges, 1).target = edge(edges, 0).target

----------------------------------------------------------------------------
(* Depth-first traversal. *)

\* the nodes the outgoing edges of idx lead to, in adjacency order
OutgoingTargets(ns, es, idx) ==
    LET out == outgoing_edges(ns, es, idx)
    IN  [k \in 1 .. Len(out) |-> edge(es, out[k]).target]

\* BitVector::insert reports whether the bit is new; BitVector::contains
BitInsertIsNew(visited, bit) == bit \notin visited

BitContains(visited, bit) == bit \in visited

\* the for loop of DepthFirstTraversal::next: every successor that is not yet
\* visited is pushed, in adjacency order
PushSuccessorsReversed(ns, es, stack, visited, idx) ==
    LET succ == OutgoingTargets(ns, es, idx)
        unvisited(t) == ~BitContains(visited, t)
        pushed == SelectSeq(succ, unvisited)
    IN  stack \o [k \in 1 .. Len(pushed) |-> pushed[Len(pushed) + 1 - k]]

PushSuccessors(ns, es, stack, visited, idx) ==
    LET succ == OutgoingTargets(ns, es, idx)
        unvisited(t) == ~BitContains(visited, t)
    IN  stack \o SelectSeq(succ, unvisited)

\* mutant: a popped node is not checked against the visited set
RECURSIVE dfs_next_no_visited_check(_, _, _, _)
dfs_next_no_visited_check(ns, es, stack, visited) ==
    IF stack = <<>>
    THEN [some |-> FALSE, idx |-> 0, stack |-> stack, visited |-> visited]
    ELSE
        LET idx == stack[Len(stack)]
            rest == SubSeq(stack, 1, Len(stack) - 1)
            seen == visited \cup {idx}
        IN  [some |-> TRUE, idx |-> idx,
             stack |-> PushSuccessors(ns, es, rest, seen, idx),
             visited |-> seen]

\* DepthFirstTraversal::next: pops until a node is new, marks it, pushes its
\* unvisited successors and yields it; None once the stack is empty
RECURSIVE dfs_next(_, _, _, _)
dfs_next(ns, es, stack, visited) ==
    IF stack = <<>>
    THEN [some |-> FALSE, idx |-> 0, stack |-> stack, visited |-> visited]
    ELSE
        LET idx == stack[Len(stack)]                       \* stack.pop()
            rest == SubSeq(stack, 1, Len(stack) - 1)
        IN  IF ~BitInsertIsNew(visited, idx)
            THEN dfs_next(ns, es, rest, visited)           \* continue
            ELSE
                LET seen == visited \cup {idx}
                IN  [some |-> TRUE, idx |-> idx,
                     stack |-> PushSuccessors(ns, es, rest, seen, idx),
                     visited |-> seen]

\* graph.depth_traverse(start), on a start node of the graph; a traversal
\* that was drained may be replaced by a new one
DepthTraverse(start) ==
    /\ dfs.pc \in {"idle", "done"}
    /\ InRange(nodes, start)
    /\ dfs' = [pc |-> "active", start |-> start, stack |-> <<start>>,
               visited |-> {}, yielded |-> <<>>, last |-> "None"]
    /\ UNCHANGED <<nodes, edges, ret, hist, snaps, fp, each, walk>>

\* one call of next() on the live traversal
DfsNext ==
    /\ dfs.pc = "active"
    /\ LET r == dfs_next(nodes, edges, dfs.stack, dfs.visited)
       IN  dfs' = IF r.some
                  THEN [dfs EXCEPT !.stack = r.stack,
                                   !.visited = r.visited,
                                   !.yielded = Append(@, r.idx),
                                   !.last = node_data(nodes, r.idx)]
                  ELSE [dfs EXCEPT !.pc = "done",
                                   !.stack = r.stack,
                                   !.visited = r.visited,
                                   !.last = "None"]
    /\ UNCHANGED <<nodes, edges, ret, hist, snaps, fp, each, walk>>

----------------------------------------------------------------------------
(* iterate_until_fixed_point.  The driver is split where it calls op.  The  *)
(* caller's state is a finite lattice of height MaxAdvances: op may answer  *)
(* true, and so move the state strictly up, at most MaxAdvances times; it   *)
(* is otherwise free to answer what it likes for any edge.                 *)

\* mutant: `changed = op(..)` in place of `changed |= op(..)`
FpBodyAssign(f, res) ==
    [f EXCEPT !.changed = res,
              !.i = @ + 1,
              !.trace = Append(@, [iteration |-> f.iteration, edge |-> f.i, res |-> res]),
              !.advances = IF res THEN @ + 1 ELSE @]

\* mutant: `changed = changed || op(..)`, which skips op once changed is set
FpBodyShortCircuit(f, res) ==
    IF f.changed
    THEN [f EXCEPT !.i = @ + 1]
    ELSE [f EXCEPT !.changed = res,
                   !.i = @ + 1,
                   !.trace = Append(@, [iteration |-> f.iteration, edge |-> f.i, res |-> res]),
                   !.advances = IF res THEN @ + 1 ELSE @]

\* the body of the for loop, for the edge with index f.i and op's answer res:
\* changed |= op(iteration, EdgeIndex(i), edge)
FpBody(f, res) ==
    [f EXCEPT !.changed = @ \/ res,
              !.i = @ + 1,
              !.trace = Append(@, [iteration |-> f.iteration, edge |-> f.i, res |-> res]),
              !.advances = IF res THEN @ + 1 ELSE @]

\* mutant: the pass counter is not advanced
FpEnterPassSameIteration(f) ==
    [f EXCEPT !.pc = "for", !.changed = FALSE, !.i = 0, !.trace = <<>>]

\* the head of the while body: changed = false; iteration += 1; the for loop
\* starts at the first edge
FpEnterPass(f) ==
    [f EXCEPT !.pc = "for", !.changed = FALSE, !.iteration = @ + 1,
              !.i = 0, !.trace = <<>>]

\* graph.iterate_until_fixed_point(op) is called: iteration = 0, changed = true
FpCall ==
    /\ fp.pc \in {"idle", "done"}
    /\ fp' = [pc |-> "while", iteration |-> 0, changed |-> TRUE, i |-> 0,
              trace |-> <<>>, advances |-> 0, passes |-> 0, true_passes |-> 0]
    /\ UNCHANGED <<nodes, edges, ret, hist, snaps, dfs, each, walk>>

\* the test of `while changed`
FpWhile ==
    /\ fp.pc = "while"
    /\ fp' = IF fp.changed
             THEN [FpEnterPass(fp) EXCEPT !.passes = @ + 1]
             ELSE [fp EXCEPT !.pc = "done"]
    /\ UNCHANGED <<nodes, edges, ret, hist, snaps, dfs, each, walk>>

\* one turn of the for loop: op is invoked on the next edge and answers res
FpInvoke ==
    /\ fp.pc = "for"
    /\ fp.i < Len(edges)
    /\ \E res \in BOOLEAN :
        /\ res => fp.advances < MaxAdvances
        /\ fp' = FpBody(fp, res)
    /\ UNCHANGED <<nodes, edges, ret, hist, snaps, dfs, each, walk>>

\* the for loop has run out of edges
FpForEnd ==
    /\ fp.pc = "for"
    /\ fp.i >= Len(edges)
    /\ fp' = [fp EXCEPT !.pc = "while",
                        !.true_passes = IF \E k \in 1 .. Len(fp.trace) : fp.trace[k].res
                                        THEN @ + 1
                                        ELSE @]
    /\ UNCHANGED <<nodes, edges, ret, hist, snaps, dfs, each, walk>>

FpStep == FpWhile \/ FpInvoke \/ FpForEnd

----------------------------------------------------------------------------
(* Graphs grown by valid calls only, with the node payloads A, B, C, ...    *)
(* and the edge payloads AB, BC, ... of the test module.                    *)

Letters == <<"A", "B", "C", "D", "E", "F">>

EdgeName(source, target) == Letters[source + 1] \o Letters[target + 1]

GrowNode ==
    /\ Len(nodes) < GrowNodes
    /\ AddNode(Letters[Len(nodes) + 1])
    /\ UNCHANGED <<hist, snaps>>

GrowEdge ==
    /\ Len(edges) < GrowEdges
    /\ \E source \in 0 .. Len(nodes) - 1, target \in 0 .. Len(nodes) - 1 :
        AddEdge(source, target, EdgeName(source, target))
    /\ UNCHANGED <<hist, snaps>>

StartDfs == \E start \in 0 .. Len(nodes) - 1 : DepthTraverse(start)

NextDfs == GrowNode \/ GrowEdge \/ StartDfs \/ DfsNext

\* a traversal that is alive is eventually asked for its next item
SpecDfs == Init /\ [][NextDfs]_vars /\ WF_vars(DfsNext)

\* the nodes reachable from the set S along outgoing edges
RECURSIVE ReachableFrom(_)
ReachableFrom(S) ==
    LET step == S \cup {edges[k].target : k \in {j \in 1 .. Len(edges) : edges[j].source \in S}}
    IN  IF step = S THEN S ELSE ReachableFrom(step)

Range(seq) == {seq[k] : k \in 1 .. Len(seq)}

NoDuplicates(seq) == \A j, k \in 1 .. Len(seq) : seq[j] = seq[k] => j = k

DfsSound ==
    dfs.pc \in {"active", "done"} =>
        /\ NoDuplicates(dfs.yielded)
        /\ Range(dfs.yielded) \subseteq ReachableFrom({dfs.start})
        /\ dfs.pc = "done" => Range(dfs.yielded) = ReachableFrom({dfs.start})
        /\ (dfs.pc = "active" /\ dfs.yielded # <<>>) =>
               dfs.last = node_data(nodes, dfs.yielded[Len(dfs.yielded)])

\* C2: draining depth_traverse(s) ends, and yields every node reachable from
\* s exactly once and no other node, whatever the shape of the graph.
C2_DfsReachability ==
    /\ []DfsSound
    /\ (dfs.pc = "active") ~> (dfs.pc = "done")

\* a drained traversal of a graph with a cycle through the start node and a
\* node that cannot be reached
C2_Witness ==
    /\ dfs.pc = "done"
    /\ Len(dfs.yielded) >= 2
    /\ Len(dfs.yielded) < Len(nodes)
    /\ \E j \in 1 .. Len(edges) :
        /\ edges[j].target = dfs.start
        /\ edges[j].source # dfs.start
        /\ edges[j].source \in Range(dfs.yielded)

----------------------------------------------------------------------------
(* The reference graph of the test module.                                 *)
(*                                                                         *)
(*     A -+> B --> C                                                       *)
(*        |  |     ^                                                       *)
(*        |  v     |                                                       *)
(*        F  D --> E                                                       *)

\* the calls of create_graph, in program order
create_graph_calls ==
    [k \in 1 .. 6 |-> [op |-> "add_node", source |-> 0, target |-> 0, data |-> Letters[k]]]
    \o << [op |-> "add_edge", source |-> 0, target |-> 1, data |-> "AB"],
          [op |-> "add_edge", source |-> 1, target |-> 2, data |-> "BC"],
          [op |-> "add_edge", source |-> 1, target |-> 3, data |-> "BD"],
          [op |-> "add_edge", source |-> 3, target |-> 4, data |-> "DE"],
          [op |-> "add_edge", source |-> 4, target |-> 2, data |-> "EC"],
          [op |-> "add_edge", source |-> 5, target |-> 1, data |-> "FB"] >>

RefBuilt == Len(nodes) + Len(edges) = Len(create_graph_calls)

\* the next call of create_graph
CreateGraphStep ==
    /\ ~RefBuilt
    /\ LET c == create_graph_calls[Len(nodes) + Len(edges) + 1]
       IN  IF c.op = "add_node"
           THEN AddNode(c.data)
           ELSE AddEdge(c.source, c.target, c.data)
    /\ UNCHANGED <<hist, snaps>>

RefStartDfs == RefBuilt /\ \E start \in 0 .. Len(nodes) - 1 : DepthTraverse(start)

RefFpCall == RefBuilt /\ FpCall

NextRef == CreateGraphStep \/ RefStartDfs \/ DfsNext \/ RefFpCall \/ FpWhile \/ FpInvoke \/ FpForEnd

SpecRef == Init /\ [][NextRef]_vars

YieldedData == [k \in 1 .. Len(dfs.yielded) |-> node_data(nodes, dfs.yielded[k])]

\* C3 as stated: the traversal from B yields B, D, E, C
C3_AsStated ==
    (RefBuilt /\ dfs.pc = "done" /\ dfs.start = 1) => YieldedData = <<"B", "D", "E", "C">>

\* C3, amended: on the reference graph the traversal from B yields B, C, D, E
C3_DfsOrderFromB ==
    (RefBuilt /\ dfs.pc = "done" /\ dfs.start = 1) => YieldedData = <<"B", "C", "D", "E">>

\* the traversal from B was drained
C3_Witness ==
    RefBuilt /\ dfs.pc = "done" /\ dfs.start = 1 /\ Len(dfs.yielded) = 4

----------------------------------------------------------------------------
(* The fixed-point driver on grown graphs. *)

NextFp == GrowNode \/ GrowEdge \/ FpCall \/ FpWhile \/ FpInvoke \/ FpForEnd

\* a driver that was called keeps running: it is sequential code
SpecFp == Init /\ [][NextFp]_vars /\ WF_vars(FpStep)

FpRunning == fp.pc \in {"while", "for"}

AnyTrue(trace) == \E k \in 1 .. Len(trace) : trace[k].res

FpLastPassQuiet ==
    fp.pc = "done" =>
        /\ fp.iteration >= 1
        /\ Len(fp.trace) = Len(edges)
        /\ ~AnyTrue(fp.trace)

\* C6: with a transition function that can advance only finitely often, the
\* driver returns, and its last pass answered false for every edge.
C6_FixedPointTerminates ==
    /\ []FpLastPassQuiet
    /\ FpRunning ~> (fp.pc = "done")

\* the driver returned after the lattice was climbed to its top
C6_Witness ==
    /\ fp.pc = "done"
    /\ fp.advances = MaxAdvances
    /\ fp.iteration >= 3
    /\ Len(edges) >= 2

\* the invocations of the current pass: one per edge so far, in arena order
FpPassInOrder ==
    /\ \A k \in 1 .. Len(fp.trace) :
        fp.trace[k].edge = k - 1 /\ fp.trace[k].iteration = fp.iteration
    /\ fp.pc = "for" => Len(fp.trace) = fp.i
    /\ (fp.pc = "for" /\ fp.i >= Len(edges)) => Len(fp.trace) = Len(edges)
    /\ (fp.pc \in {"while", "done"} /\ fp.iteration >= 1) => Len(fp.trace) = Len(edges)
    /\ (fp.pc = "for" \/ fp.iteration >= 1) => (fp.changed <=> AnyTrue(fp.trace))
    /\ fp.pc = "done" => ~AnyTrue(fp.trace)

\* after a completed pass the driver either starts a pass or returns
FpNextPassIffChanged ==
    (fp.pc = "while" /\ fp.iteration >= 1 /\ fp' # fp) =>
        /\ fp'.pc = "for" <=> AnyTrue(fp.trace)
        /\ fp'.pc = "done" <=> ~AnyTrue(fp.trace)

\* C7: every pass invokes op once per edge in arena order, also after an
\* earlier edge answered true; another pass starts iff some invocation of the
\* pass just completed answered true.
C7_FullPasses ==
    /\ []FpPassInOrder
    /\ [][FpNextPassIffChanged]_vars

\* op is invoked on the second edge although the first edge answered true
C7_Witness ==
    /\ fp.pc = "for"
    /\ Len(fp.trace) >= 2
    /\ fp.trace[1].res
    /\ fp.iteration >= 2

----------------------------------------------------------------------------
(* Savepoints.  The arenas are SnapshotVecs; the graph registers no undo    *)
(* action of its own (Undo = (), reverse does nothing), so the undo log of  *)
(* an arena holds its growth only and a rollback truncates it.             *)

\* SnapshotVec::start_snapshot: the savepoint remembers the length
start_snapshot(arena) == Len(arena)

\* SnapshotVec::rollback_to: every element pushed since the savepoint is popped
rollback_to(arena, length) == SubSeq(arena, 1, length)

\* a savepoint is taken on both arenas
StartSnapshot ==
    /\ NoBorrow
    /\ hist.snapshots < MaxSnapshots
    /\ LET s == [nodes_len |-> start_snapshot(nodes),
                 edges_len |-> start_snapshot(edges),
                 nodes_then |-> nodes,
                 edges_then |-> edges]
       IN  /\ snaps' = Append(snaps, s)
           /\ ret' = [NoCall EXCEPT !.op = "start_snapshot"]
    /\ hist' = [hist EXCEPT !.snapshots = @ + 1]
    /\ dfs' = DfsIdle
    /\ fp' = FpIdle
    /\ each' = EachIdle
    /\ UNCHANGED <<nodes, edges, walk>>

\* both arenas are rolled back to the innermost open savepoint
RollbackTo ==
    /\ NoBorrow
    /\ snaps # <<>>
    /\ LET s == snaps[Len(snaps)]
       IN  /\ nodes' = rollback_to(nodes, s.nodes_len)
           /\ edges' = rollback_to(edges, s.edges_len)
           /\ ret' = [NoCall EXCEPT !.op = "rollback_to", !.snap = s,
                                    !.source = Len(nodes), !.target = Len(edges)]
    /\ snaps' = SubSeq(snaps, 1, Len(snaps) - 1)
    /\ dfs' = DfsIdle
    /\ fp' = FpIdle
    /\ each' = EachIdle
    /\ UNCHANGED <<hist, walk>>

\* the innermost open savepoint is committed: the additions stay
Commit ==
    /\ NoBorrow
    /\ snaps # <<>>
    /\ ret' = [NoCall EXCEPT !.op = "commit"]
    /\ snaps' = SubSeq(snaps, 1, Len(snaps) - 1)
    /\ dfs' = DfsIdle
    /\ fp' = FpIdle
    /\ each' = EachIdle
    /\ UNCHANGED <<nodes, edges, hist, walk>>

TxAddNode ==
    /\ Len(nodes) < TxNodes
    /\ AddNode(Letters[Len(nodes) + 1])
    /\ UNCHANGED <<hist, snaps>>

TxAddEdge ==
    /\ Len(edges) < TxEdges
    /\ \E source \in 0 .. Len(nodes) - 1, target \in 0 .. Len(nodes) - 1 :
        AddEdge(source, target, EdgeName(source, target))
    /\ UNCHANGED <<hist, snaps>>

NextTx == TxAddNode \/ TxAddEdge \/ StartSnapshot \/ RollbackTo \/ Commit

SpecTx == Init /\ [][NextTx]_vars

\* C4: after a rollback both arenas equal their content at the savepoint:
\* every surviving node record (payload and both heads) and every surviving
\* edge record is as it was, so no surviving head refers to a discarded edge.
C4_RollbackRestoresContent ==
    ret.op = "rollback_to" =>
        /\ nodes = ret.snap.nodes_then
        /\ edges = ret.snap.edges_then
        /\ \A n \in 0 .. Len(nodes) - 1 : \A dir \in Directions :
            first_adjacent(nodes, n, dir) = INVALID_EDGE_INDEX
                \/ InRange(edges, first_adjacent(nodes, n, dir))

\* C5: after a rollback the arena lengths, and so next_node_index and
\* next_edge_index, are those of the savepoint, and every index at or beyond
\* them is out of range.
C5_RollbackRestoresLengths ==
    ret.op = "rollback_to" =>
        /\ Len(nodes) = ret.snap.nodes_len
        /\ Len(edges) = ret.snap.edges_len
        /\ Len(nodes) = Len(ret.snap.nodes_then)
        /\ Len(edges) = Len(ret.snap.edges_then)
        /\ next_node_index(nodes) = ret.snap.nodes_len
        /\ next_edge_index(edges) = ret.snap.edges_len
        /\ add_node(nodes, "A").idx = ret.snap.nodes_len
        /\ \A i \in ret.snap.nodes_len .. ret.source : ~InRange(nodes, i)
        /\ \A j \in ret.snap.edges_len .. ret.target : ~InRange(edges, j)
        /\ \A i \in 0 .. Len(nodes) - 1 :
            add_edge(nodes, edges, i, i, "AA").idx = ret.snap.edges_len

\* a rollback that discarded a node and an edge added after the savepoint
C5_Witness ==
    /\ ret.op = "rollback_to"
    /\ ret.source > ret.snap.nodes_len
    /\ ret.target > ret.snap.edges_len
    /\ ret.snap.nodes_len >= 1

----------------------------------------------------------------------------
(* each_node and each_edge on grown graphs, with every callback: a callback *)
(* is given by what it answers at its first, second, ... invocation.       *)

CallEachNode ==
    /\ \E answers \in [1 .. Len(nodes) -> BOOLEAN] :
        LET r == each_node(nodes, answers)
        IN  each' = [op |-> "each_node", answers |-> answers,
                     visits |-> r.visits, result |-> r.result]
    /\ UNCHANGED <<nodes, edges, ret, hist, snaps, dfs, fp, walk>>

CallEachEdge ==
    /\ \E answers \in [1 .. Len(edges) -> BOOLEAN] :
        LET r == each_edge(edges, answers)
        IN  each' = [op |-> "each_edge", answers |-> answers,
                     visits |-> r.visits, result |-> r.result]
    /\ UNCHANGED <<nodes, edges, ret, hist, snaps, dfs, fp, walk>>

NextEach == GrowNode \/ GrowEdge \/ CallEachNode \/ CallEachEdge

SpecEach == Init /\ [][NextEach]_vars

EachArena == IF each.op = "each_node" THEN nodes ELSE edges

\* C11: each_node / each_edge invoke the callback on index 0, 1, ... in
\* order, stop right after the first invocation that answers false, and
\* return true iff every invocation answered true (true on an empty arena).
C11_EachEarlyExit ==
    each.op # "none" =>
        LET made == each.visits
            refused == \E k \in 1 .. Len(EachArena) : ~each.answers[k]
        IN  /\ Len(made) <= Len(EachArena)
            /\ \A k \in 1 .. Len(made) :
                made[k].idx = k - 1 /\ made[k].item = EachArena[k]
            /\ \A k \in 1 .. Len(made) - 1 : each.answers[k]
            /\ refused => (Len(made) >= 1 /\ ~each.answers[Len(made)])
            /\ ~refused => Len(made) = Len(EachArena)
            /\ each.result <=> (\A k \in 1 .. Len(made) : each.answers[k])
            /\ EachArena = <<>> => each.result

\* each_node on three nodes whose callback refuses the second one
C11_Witness ==
    /\ each.op = "each_node"
    /\ Len(nodes) = 3
    /\ ~each.answers[2] /\ each.answers[1]
    /\ Len(each.visits) = 2
    /\ ~each.result

----------------------------------------------------------------------------
(* Neighbour lists. *)

\* how often x occurs in seq
Occurrences(seq, x) == Cardinality({k \in 1 .. Len(seq) : seq[k] = x})

\* the edges from n to m
EdgesBetween(n, m) ==
    {j \in 0 .. Len(edges) - 1 : edge(edges, j).source = n /\ edge(edges, j).target = m}

\* C12: successor_nodes(n) is the sequence of targets of outgoing_edges(n) and
\* predecessor_nodes(n) the sequence of sources of incoming_edges(n), in the
\* same order and with repetitions: as long as the degree of n, with a
\* neighbour that is connected by k parallel edges occurring k times.
C12_NeighbourLists ==
    \A n \in 0 .. Len(nodes) - 1 :
        LET succ == successor_nodes(nodes, edges, n)
            pred == predecessor_nodes(nodes, edges, n)
            out == outgoing_edges(nodes, edges, n)
            inc == incoming_edges(nodes, edges, n)
        IN  /\ Len(succ) = Len(out)
            /\ Len(pred) = Len(inc)
            /\ \A k \in 1 .. Len(out) : succ[k] = edge(edges, out[k]).target
            /\ \A k \in 1 .. Len(inc) : pred[k] = edge(edges, inc[k]).source
            /\ Len(succ) = Cardinality({j \in 0 .. Len(edges) - 1 : edge(edges, j).source = n})
            /\ Len(pred) = Cardinality({j \in 0 .. Len(edges) - 1 : edge(edges, j).target = n})
            /\ \A m \in 0 .. Len(nodes) - 1 :
                /\ Occurrences(succ, m) = Cardinality(EdgesBetween(n, m))
                /\ Occurrences(pred, m) = Cardinality(EdgesBetween(m, n))

\* two parallel edges between two different nodes: the neighbour is listed twice
C12_Witness ==
    \E n, m \in 0 .. Len(nodes) - 1 :
        /\ n # m
        /\ Cardinality(EdgesBetween(n, m)) = 2
        /\ successor_nodes(nodes, edges, n) = <<m, m>>
        /\ predecessor_nodes(nodes, edges, m) = <<n, n>>

----------------------------------------------------------------------------
(* Payload writes, on graphs built by valid calls with any payload.        *)

\* *graph.mut_node_data(idx) = data, on a node of the graph
MutNodeData(idx, data) ==
    /\ NoBorrow
    /\ InRange(nodes, idx)
    /\ nodes' = mut_node_data(nodes, idx, data)
    /\ ret' = [NoCall EXCEPT !.op = "mut_node_data", !.idx = idx,
                             !.old = node_data(nodes, idx)]
    /\ dfs' = DfsIdle
    /\ fp' = FpIdle
    /\ each' = EachIdle
    /\ UNCHANGED <<edges, hist, snaps, walk>>

\* *graph.mut_edge_data(idx) = data, on an edge of the graph
MutEdgeData(idx, data) ==
    /\ NoBorrow
    /\ InRange(edges, idx)
    /\ edges' = mut_edge_data(edges, idx, data)
    /\ ret' = [NoCall EXCEPT !.op = "mut_edge_data", !.idx = idx,
                             !.old = edge_data(edges, idx)]
    /\ dfs' = DfsIdle
    /\ fp' = FpIdle
    /\ each' = EachIdle
    /\ UNCHANGED <<nodes, hist, snaps, walk>>

MutAddNode ==
    /\ Len(nodes) < MutNodes
    /\ \E data \in NodeData : AddNode(data)
    /\ UNCHANGED <<hist, snaps>>

MutAddEdge ==
    /\ Len(edges) < MutEdges
    /\ \E source \in 0 .. Len(nodes) - 1, target \in 0 .. Len(nodes) - 1, data \in EdgeData :
        AddEdge(source, target, data)
    /\ UNCHANGED <<hist, snaps>>

WriteNodeData == \E idx \in 0 .. Len(nodes) - 1, data \in NodeData : MutNodeData(idx, data)

WriteEdgeData == \E idx \in 0 .. Len(edges) - 1, data \in EdgeData : MutEdgeData(idx, data)

NextMut == MutAddNode \/ MutAddEdge \/ WriteNodeData \/ WriteEdgeData

SpecMut == Init /\ [][NextMut]_vars

\* the node indices a traversal from the top of `stack` on yields when drained
RECURSIVE DrainFrom(_, _, _, _)
DrainFrom(ns, es, stack, visited) ==
    LET r == dfs_next(ns, es, stack, visited)
    IN  IF r.some
        THEN <<r.idx>> \o DrainFrom(ns, es, r.stack, r.visited)
        ELSE <<>>

DfsDrain(ns, es, start) == DrainFrom(ns, es, <<start>>, {})

\* what a payload write leaves alone
MutFrame ==
    /\ Len(nodes') = Len(nodes)
    /\ Len(edges') = Len(edges)
    /\ \A k \in 1 .. Len(nodes) : nodes'[k].first_edge = nodes[k].first_edge
    /\ \A j \in 1 .. Len(edges) :
        /\ edges'[j].next_edge = edges[j].next_edge
        /\ edges'[j].source = edges[j].source
        /\ edges'[j].target = edges[j].target
    /\ ret'.op = "mut_node_data" =>
        /\ edges' = edges
        /\ \A k \in 1 .. Len(nodes) : k # ret'.idx + 1 => nodes'[k].data = nodes[k].data
    /\ ret'.op = "mut_edge_data" =>
        /\ nodes' = nodes
        /\ \A j \in 1 .. Len(edges) : j # ret'.idx + 1 => edges'[j].data = edges[j].data
    /\ \A n \in 0 .. Len(nodes) - 1 :
        /\ \A dir \in Directions :
            adjacent_edges(nodes', edges', n, dir) = adjacent_edges(nodes, edges, n, dir)
        /\ DfsDrain(nodes', edges', n) = DfsDrain(nodes, edges, n)

\* C13: a write through mut_node_data(i) or mut_edge_data(j) changes that one
\* payload only: lengths, heads, links, endpoints and all other payloads stay,
\* and so do all adjacency and depth-first results as index sequences.
C13_PayloadWriteFrame ==
    [][ret'.op \in {"mut_node_data", "mut_edge_data"} => MutFrame]_vars

\* a node with an edge on each of its lists was given a different payload
C13_Witness ==
    /\ ret.op = "mut_node_data"
    /\ node_data(nodes, ret.idx) # ret.old
    /\ Len(outgoing_edges(nodes, edges, ret.idx)) >= 1
    /\ Len(incoming_edges(nodes, edges, ret.idx)) >= 1
    /\ DfsDrain(nodes, edges, ret.idx) = <<ret.idx>>

----------------------------------------------------------------------------
(* Structure of the two intrusive lists, on graphs grown by valid calls.   *)

NextGrow == GrowNode \/ GrowEdge

SpecGrow == Init /\ [][NextGrow]_vars

\* C14: every head first_adjacent(n, d) is the sentinel or indexes an existing
\* edge whose d-side endpoint is n; a node just added has the sentinel in both
\* directions; the sentinel is not the index of an edge of the arena.
C14_HeadsWellFormed ==
    /\ \A n \in 0 .. Len(nodes) - 1 : \A dir \in Directions :
        LET head == first_adjacent(nodes, n, dir)
        IN  \/ head = INVALID_EDGE_INDEX
            \/ /\ InRange(edges, head)
               /\ Endpoint(edge(edges, head), dir) = n
    /\ ret.op = "add_node" =>
        \A dir \in Directions : first_adjacent(nodes, ret.idx, dir) = INVALID_EDGE_INDEX
    /\ ~InRange(edges, INVALID_EDGE_INDEX)

\* a node was just added to a graph in which another node heads a list in
\* each direction
C14_Witness ==
    /\ ret.op = "add_node"
    /\ ret.idx = 1
    /\ first_adjacent(nodes, 0, OUTGOING) # INVALID_EDGE_INDEX
    /\ first_adjacent(nodes, 0, INCOMING) # INVALID_EDGE_INDEX
    /\ first_adjacent(nodes, 1, OUTGOING) = INVALID_EDGE_INDEX

\* C15: every link next_adjacent(e, d) is the sentinel or the index of an
\* edge smaller than e with the same d-side endpoint as e, and every walk from
\* a head reaches the sentinel within Len(edges) steps.
C15_LinksDescend ==
    /\ \A e \in 0 .. Len(edges) - 1 : \A dir \in Directions :
        LET next == next_adjacent(edges, e, dir)
        IN  \/ next = INVALID_EDGE_INDEX
            \/ /\ next >= 0
               /\ next < e
               /\ Endpoint(edge(edges, next), dir) = Endpoint(edge(edges, e), dir)
    /\ \A n \in 0 .. Len(nodes) - 1 : \A dir \in Directions :
        Len(adjacent_edges(nodes, edges, n, dir)) <= Len(edges)

\* an edge linked to an older edge in both directions, on a list that is
\* walked in as many steps as there are edges
C15_Witness ==
    /\ Len(edges) >= 2
    /\ \A dir \in Directions : next_adjacent(edges, Len(edges) - 1, dir) # INVALID_EDGE_INDEX
    /\ \E n \in 0 .. Len(nodes) - 1 :
        Len(adjacent_edges(nodes, edges, n, OUTGOING)) = Len(edges)

\* the steps of a successful add_edge(s, t, _): one record appended, s's
\* OUTGOING head and t's INCOMING head set to it, nothing else touched
AddEdgeFrame ==
    LET s == ret'.source
        t == ret'.target
    IN  /\ Len(edges') = Len(edges) + 1
        /\ ret'.idx = Len(edges)
        /\ \A j \in 1 .. Len(edges) : edges'[j] = edges[j]
        /\ Len(nodes') = Len(nodes)
        /\ first_adjacent(nodes', s, OUTGOING) = ret'.idx
        /\ first_adjacent(nodes', t, INCOMING) = ret'.idx
        /\ \A n \in 0 .. Len(nodes) - 1 :
            /\ node_data(nodes', n) = node_data(nodes, n)
            /\ \A dir \in Directions :
                (<<n, dir>> # <<s, OUTGOING>> /\ <<n, dir>> # <<t, INCOMING>>)
                    => first_adjacent(nodes', n, dir) = first_adjacent(nodes, n, dir)

\* the steps of add_node: one record appended to the node arena
AddNodeFrame ==
    /\ edges' = edges
    /\ Len(nodes') = Len(nodes) + 1
    /\ \A k \in 1 .. Len(nodes) : nodes'[k] = nodes[k]

\* source, target and both links of an edge stay as they were created
EdgeStructureKept ==
    \A j \in 1 .. Len(edges) :
        /\ j <= Len(edges')
        /\ edges'[j].source = edges[j].source
        /\ edges'[j].target = edges[j].target
        /\ edges'[j].next_edge = edges[j].next_edge

\* C16: a successful add_edge(s, t, _) appends one edge record and sets s's
\* OUTGOING head and t's INCOMING head to it, leaving every existing edge
\* record, every other head and all node payloads unchanged; add_node only
\* appends one node record; no step changes source, target or next_edge of an
\* existing edge.
C16_ConstructionFrame ==
    [][ /\ (ret'.op = "add_edge" /\ ~ret'.panicked) => AddEdgeFrame
        /\ ret'.op = "add_node" => AddNodeFrame
        /\ EdgeStructureKept ]_vars

\* an edge between two distinct nodes was added to lists that already had a
\* head, while the other two heads of the endpoints were set too
C16_Witness ==
    /\ ret.op = "add_edge"
    /\ ~ret.panicked
    /\ ret.source # ret.target
    /\ next_adjacent(edges, ret.idx, OUTGOING) # INVALID_EDGE_INDEX
    /\ first_adjacent(nodes, ret.source, INCOMING) \notin {INVALID_EDGE_INDEX, ret.idx}

----------------------------------------------------------------------------
(* Failing calls, in Spec.                                                 *)

\* C17: an add_edge that fails on an out-of-range source or target, also when
\* only the target is out of range, leaves the graph as before the call: no
\* edge appended, next_edge_index unchanged, no head modified.
C17_FailedAddEdgeNoEffect ==
    [][(ret'.op = "add_edge" /\ ret'.panicked) =>
        /\ ~InRange(nodes, ret'.source) \/ ~InRange(nodes, ret'.target)
        /\ nodes' = nodes
        /\ edges' = edges
        /\ next_edge_index(edges') = next_edge_index(edges)]_vars

\* a failed call with a valid source that heads a list and a target out of
\* range
C17_Witness ==
    /\ ret.op = "add_edge"
    /\ ret.panicked
    /\ InRange(nodes, ret.source)
    /\ ~InRange(nodes, ret.target)
    /\ first_adjacent(nodes, ret.source, OUTGOING) # INVALID_EDGE_INDEX
    /\ first_adjacent(nodes, ret.source, OUTGOING) = Len(edges) - 1

----------------------------------------------------------------------------
(* A caller walks one list by hand while the graph keeps growing.          *)

\* e = graph.first_adjacent(n, dir): the walk reads the head
WalkStart(n, dir) ==
    /\ walk.pc \in {"idle", "done"}
    /\ InRange(nodes, n)
    /\ walk' = [pc |-> "active", node |-> n, dir |-> dir,
                cursor |-> first_adjacent(nodes, n, dir),
                visited |-> <<>>,
                expected |-> adjacent_edges(nodes, edges, n, dir),
                grown |-> FALSE]
    /\ UNCHANGED <<nodes, edges, ret, hist, snaps, dfs, fp, each>>

\* one turn of the caller's loop: stop at the sentinel, otherwise visit the
\* edge and move on with e = graph.next_adjacent(e, dir)
WalkNext ==
    /\ walk.pc = "active"
    /\ walk' = IF walk.cursor = INVALID_EDGE_INDEX
               THEN [walk EXCEPT !.pc = "done"]
               ELSE [walk EXCEPT
                        !.visited = Append(@, walk.cursor),
                        !.cursor = next_adjacent(edges, walk.cursor, walk.dir),
                        !.grown = @ \/ adjacent_edges(nodes, edges, walk.node, walk.dir)
                                        # walk.expected]
    /\ UNCHANGED <<nodes, edges, ret, hist, snaps, dfs, fp, each>>

StartWalk == \E n \in 0 .. Len(nodes) - 1, dir \in Directions : WalkStart(n, dir)

NextWalk == GrowNode \/ GrowEdge \/ StartWalk \/ WalkNext

\* a caller that started a walk keeps taking turns of its loop
SpecWalk == Init /\ [][NextWalk]_vars /\ WF_vars(WalkNext)

\* the walk has visited a prefix of the list as it was when the head was
\* read, stands on the next edge of that list, and has visited all of it
\* when it stops
WalkSound ==
    /\ Len(walk.visited) <= Len(walk.expected)
    /\ walk.visited = SubSeq(walk.expected, 1, Len(walk.visited))
    /\ walk.pc = "active" =>
        walk.cursor = IF Len(walk.visited) < Len(walk.expected)
                      THEN walk.expected[Len(walk.visited) + 1]
                      ELSE INVALID_EDGE_INDEX
    /\ walk.pc = "done" => walk.visited = walk.expected

\* C18: a walk by first_adjacent / next_adjacent with add_node / add_edge calls
\* between its steps terminates and visits exactly the edges that were on the
\* list when the head was read, in the adjacency iterator's order of that
\* moment; edges added during the walk are not visited.
C18_WalkUnderGrowth ==
    /\ []WalkSound
    /\ (walk.pc = "active") ~> (walk.pc = "done")

\* a walk that finished after visiting an edge of a list that had grown
\* since the head was read
C18_Witness ==
    /\ walk.pc = "done"
    /\ walk.grown
    /\ Len(walk.visited) >= 1
    /\ Len(adjacent_edges(nodes, edges, walk.node, walk.dir)) > Len(walk.visited)

----------------------------------------------------------------------------
(* Pass counting of iterate_until_fixed_point, in SpecFp.                  *)

\* C19: the driver performs at least one pass, and exactly one without any
\* invocation on a graph with no edges; the iteration number handed to op is
\* the same for all invocations of a pass, 1 in the first pass and one more
\* in each further pass; the number of passes is one more than the number of
\* passes in which some invocation answered true.
C19_PassCounting ==
    /\ \A k \in 1 .. Len(fp.trace) : fp.trace[k].iteration = fp.passes
    /\ fp.pc = "for" => fp.passes >= 1
    /\ fp.pc = "done" =>
        /\ fp.passes >= 1
        /\ fp.passes = fp.true_passes + 1
        /\ Len(edges) = 0 => (fp.passes = 1 /\ fp.trace = <<>>)

\* the driver returned from its third pass over two edges
C19_Witness ==
    /\ fp.pc = "done"
    /\ fp.passes = 3
    /\ fp.true_passes = 2
    /\ Len(fp.trace) = 2
    /\ fp.trace[1].iteration = 3
    /\ fp.trace[2].iteration = 3

====
